---- MODULE Spec2Model ----
(***************************************************************************)
(* A model of opt_einsum/contract.py: contract_path (option checks,        *)
(* dimension table, memory bound, path selection, plan building),          *)
(* contract, _core_contract and ContractExpression.                        *)
(*                                                                         *)
(* Labels are the integers 1..NLabels (the order of the integers is the    *)
(* order of the characters).  A term is a sequence of labels, a tensor is  *)
(* its shape (a sequence of sizes), positions in a path are 0-based as in  *)
(* the source.                                                             *)
(***************************************************************************)
EXTENDS Integers, Sequences, FiniteSets, TLC

\* ------------------------------------------------------------------ bounds
MaxOps == 3
MaxRank == 2
NLabels == 3

Labels == 1..NLabels

None == "None"

\* --------------------------------------------------------- small utilities
SetOf(term) == {term[i] : i \in 1..Len(term)}

Max(a, b) == IF a >= b THEN a ELSE b

RECURSIVE SeqMax(_)
SeqMax(s) == IF Len(s) = 1 THEN s[1] ELSE Max(s[1], SeqMax(Tail(s)))

RECURSIVE SeqSum(_)
SeqSum(s) == IF Len(s) = 0 THEN 0 ELSE s[1] + SeqSum(Tail(s))

\* list.pop(x) for a 0-based position x: the list without that entry
PopAt(s, x) == [i \in 1..(Len(s) - 1) |-> IF i <= x THEN s[i] ELSE s[i + 1]]

\* tuple(sorted(list(contract_inds), reverse=True)) for a set of positions
RECURSIVE SortedDesc(_)
SortedDesc(S) ==
    IF S = {} THEN <<>>
    ELSE LET m == CHOOSE x \in S : \A y \in S : y <= x
         IN <<m>> \o SortedDesc(S \ {m})

\* the labels of a set in ascending (dimension, label) order
RECURSIVE SortBySize(_, _)
SortBySize(S, dd) ==
    IF S = {} THEN <<>>
    ELSE LET m == CHOOSE x \in S :
                    \A y \in S : (dd[x] < dd[y]) \/ (dd[x] = dd[y] /\ x <= y)
         IN <<m>> \o SortBySize(S \ {m}, dd)

\* ------------------------------------------------ helpers (cost model, finder)
\* helpers.compute_size_by_dict on a set of labels: the product of their sizes
RECURSIVE compute_size_by_dict(_, _)
compute_size_by_dict(idx, dd) ==
    IF idx = {} THEN 1
    ELSE LET l == CHOOSE x \in idx : TRUE
         IN dd[l] * compute_size_by_dict(idx \ {l}, dd)

\* helpers.compute_size_by_dict on a term: one factor per position of the term
RECURSIVE compute_size_of_term(_, _)
compute_size_of_term(term, dd) ==
    IF Len(term) = 0 THEN 1
    ELSE dd[term[1]] * compute_size_of_term(Tail(term), dd)

\* helpers.flop_count: the size of the labels touched, doubled when a label is
\* summed away, scaled by the number of operands less one
flop_count(idx_contraction, inner, num_terms, dd) ==
    compute_size_by_dict(idx_contraction, dd)
        * (IF inner THEN 2 ELSE 1) * (num_terms - 1)

\* the entries of s whose 0-based position is not in positions, in order
RECURSIVE Others(_, _, _)
Others(s, positions, i) ==
    IF i > Len(s) THEN <<>>
    ELSE (IF (i - 1) \in positions THEN <<>> ELSE <<s[i]>>)
             \o Others(s, positions, i + 1)

RECURSIVE UnionOf(_)
UnionOf(s) == IF Len(s) = 0 THEN {} ELSE s[1] \cup UnionOf(Tail(s))

\* helpers.find_contraction: positions is the set of grouped positions
find_contraction(positions, input_sets, output_set) ==
    LET grouped      == [i \in 1..Len(input_sets) |->
                            IF (i - 1) \in positions THEN input_sets[i] ELSE {}]
        idx_contract == UnionOf(grouped)
        rest         == Others(input_sets, positions, 1)
        idx_remain   == output_set \cup UnionOf(rest)
        new_result   == idx_remain \cap idx_contract
    IN [new_result   |-> new_result,
        remaining    |-> Append(rest, new_result),
        idx_removed  |-> idx_contract \ new_result,
        idx_contract |-> idx_contract]

\* blas.can_blas: two operands, a summed label shared by both, and no label
\* shared by both that survives
can_blas(inputs, result, idx_removed) ==
    /\ Len(inputs) = 2
    /\ (SetOf(inputs[1]) \cap SetOf(inputs[2])) \cap idx_removed # {}
    /\ (SetOf(inputs[1]) \cap SetOf(inputs[2])) \ idx_removed = {}

\* ------------------------------------------------------- paths (path search)
MinOf(S) == CHOOSE x \in S : \A y \in S : x <= y
MaxOf(S) == CHOOSE x \in S : \A y \in S : y <= x

\* all pairs of positions of a list of n operands
Pairs(n) == {p \in SUBSET (0..(n - 1)) : Cardinality(p) = 2}

LexLeq(a, b) ==
    \E k \in 1..(Len(a) + 1) :
        /\ \A j \in 1..(k - 1) : a[j] = b[j]
        /\ (k = Len(a) + 1 \/ a[k] < b[k])

\* the score of a candidate pair: estimated cost less the size of the labels it
\* eliminates, then the size of the new operand, then the positions
GreedyKey(p, sets, output_set, dd) ==
    CHOOSE key \in {<<flop_count(c.idx_contract, c.idx_removed # {}, 2, dd)
                         - compute_size_by_dict(c.idx_removed, dd),
                     compute_size_by_dict(c.new_result, dd),
                     MinOf(p), MaxOf(p)>> :
                         c \in {find_contraction(p, sets, output_set)}} : TRUE

\* one step of the greedy strategy with no pair accepted when none is within the
\* memory bound
GreedyChoiceNoFallback(sets, output_set, dd, memory_limit) ==
    LET n       == Len(sets)
        sharing == {p \in Pairs(n) : sets[MinOf(p) + 1] \cap sets[MaxOf(p) + 1] # {}}
        within  == {p \in sharing :
                       \E c \in {find_contraction(p, sets, output_set)} :
                           compute_size_by_dict(c.new_result, dd) <= memory_limit}
        small(i, j) == LexLeq(<<compute_size_by_dict(sets[i + 1], dd), i>>,
                              <<compute_size_by_dict(sets[j + 1], dd), j>>)
        first   == CHOOSE i \in 0..(n - 1) : \A j \in 0..(n - 1) : small(i, j)
        second  == CHOOSE i \in (0..(n - 1)) \ {first} :
                       \A j \in (0..(n - 1)) \ {first} : small(i, j)
    IN IF sharing = {} THEN {first, second}
       ELSE IF within = {} THEN {}
       ELSE CHOOSE p \in within :
                \A q \in within :
                    \E kp \in {GreedyKey(p, sets, output_set, dd)},
                       kq \in {GreedyKey(q, sets, output_set, dd)} : LexLeq(kp, kq)

\* one step of the greedy strategy: the pair to contract next
GreedyChoice(sets, output_set, dd, memory_limit) ==
    LET n       == Len(sets)
        sharing == {p \in Pairs(n) : sets[MinOf(p) + 1] \cap sets[MaxOf(p) + 1] # {}}
        within  == {p \in sharing :
                       \E c \in {find_contraction(p, sets, output_set)} :
                           compute_size_by_dict(c.new_result, dd) <= memory_limit}
        pool    == IF within # {} THEN within ELSE sharing
        small(i, j) == LexLeq(<<compute_size_by_dict(sets[i + 1], dd), i>>,
                              <<compute_size_by_dict(sets[j + 1], dd), j>>)
        first   == CHOOSE i \in 0..(n - 1) : \A j \in 0..(n - 1) : small(i, j)
        second  == CHOOSE i \in (0..(n - 1)) \ {first} :
                       \A j \in (0..(n - 1)) \ {first} : small(i, j)
    IN IF sharing = {} THEN {first, second}
       ELSE CHOOSE p \in pool :
                \A q \in pool :
                    \E kp \in {GreedyKey(p, sets, output_set, dd)},
                       kq \in {GreedyKey(q, sets, output_set, dd)} : LexLeq(kp, kq)

\* paths.greedy: merge the chosen pair until one operand remains
RECURSIVE greedy(_, _, _, _)
greedy(input_sets, output_set, dd, memory_limit) ==
    IF Len(input_sets) <= 1 THEN <<>>
    ELSE LET p == GreedyChoice(input_sets, output_set, dd, memory_limit)
         IN <<p>> \o greedy(find_contraction(p, input_sets, output_set).remaining,
                            output_set, dd, memory_limit)

\* every sequence of pair contractions that reduces the list to one operand with
\* no new operand above the memory bound, with its total estimated cost
RECURSIVE OptimalSearch(_, _, _, _)
OptimalSearch(sets, output_set, dd, memory_limit) ==
    IF Len(sets) <= 1 THEN {[cost |-> 0, path |-> <<>>]}
    ELSE UNION {
        LET c == find_contraction(p, sets, output_set)
        IN IF compute_size_by_dict(c.new_result, dd) > memory_limit THEN {}
           ELSE {[cost |-> r.cost + flop_count(c.idx_contract, c.idx_removed # {}, 2, dd),
                  path |-> <<p>> \o r.path] :
                     r \in OptimalSearch(c.remaining, output_set, dd, memory_limit)}
        : p \in Pairs(Len(sets))}

\* paths.optimal: the cheapest sequence found; a single step over all operands
\* when no sequence stays within the memory bound
optimal(input_sets, output_set, dd, memory_limit) ==
    LET found == OptimalSearch(input_sets, output_set, dd, memory_limit)
    IN IF found = {} THEN <<0..(Len(input_sets) - 1)>>
       ELSE (CHOOSE r \in found : \A q \in found : r.cost <= q.cost).path

\* ------------------------------------------------------------ contract_path
valid_contract_kwargs == {"path", "memory_limit", "einsum_call", "use_blas"}

valid_einsum_kwargs == {"out", "dtype", "order", "casting"}

\* the keywords contract_path does not understand
unknown_kwargs(keys) == {k \in keys : k \notin valid_contract_kwargs}

\* the keywords contract does not understand, once its own options are popped
contract_unknown_kwargs(keys) ==
    {k \in keys \ {"optimize", "use_blas", "memory_limit", "gen_expression"} :
        k \notin valid_einsum_kwargs}

\* the inner loop over the characters of one term; 0 marks a label not yet in
\* the table
RECURSIVE ScanTerm(_, _, _, _)
ScanTerm(term, sh, cnum, dd) ==
    IF cnum > Len(term) THEN [err |-> None, dd |-> dd]
    ELSE LET char == term[cnum]
             dim  == sh[cnum]
         IN IF dd[char] # 0
            THEN (IF dd[char] # dim THEN [err |-> "ValueError", dd |-> dd]
                  ELSE ScanTerm(term, sh, cnum + 1, dd))
            ELSE ScanTerm(term, sh, cnum + 1, [dd EXCEPT ![char] = dim])

\* the loop over the terms with a rank check that lets a longer shape through
RECURSIVE ScanTermsLooseRank(_, _, _, _)
ScanTermsLooseRank(input_list, operands, tnum, dd) ==
    IF tnum > Len(input_list) THEN [err |-> None, dd |-> dd]
    ELSE IF Len(operands[tnum]) < Len(input_list[tnum])
         THEN [err |-> "ValueError", dd |-> dd]
         ELSE LET r == ScanTerm(input_list[tnum], operands[tnum], 1, dd)
              IN IF r.err # None THEN r
                 ELSE ScanTermsLooseRank(input_list, operands, tnum + 1, r.dd)

\* the loop over the terms: the rank check, then the characters
RECURSIVE ScanTerms(_, _, _, _)
ScanTerms(input_list, operands, tnum, dd) ==
    IF tnum > Len(input_list) THEN [err |-> None, dd |-> dd]
    ELSE IF Len(operands[tnum]) # Len(input_list[tnum])
         THEN [err |-> "ValueError", dd |-> dd]
         ELSE LET r == ScanTerm(input_list[tnum], operands[tnum], 1, dd)
              IN IF r.err # None THEN r
                 ELSE ScanTerms(input_list, operands, tnum + 1, r.dd)

BuildDimensionDict(input_list, operands) ==
    ScanTerms(input_list, operands, 1, [l \in Labels |-> 0])

\* the largest of the input sizes and the output size
OutSize(input_list, output_subscript, dd) ==
    SeqMax([i \in 1..(Len(input_list) + 1) |->
               IF i <= Len(input_list) THEN compute_size_of_term(input_list[i], dd)
               ELSE compute_size_of_term(output_subscript, dd)])


\* stands for int(1e20), which no size of the model reaches
UnboundedMemory == 1000000000

\* memory_limit=None, and memory_limit=k
NoLimit == [given |-> FALSE, value |-> 0]

Limit(k) == [given |-> TRUE, value |-> k]

\* memory_arg with a bad limit of 0 let through
ResolveMemoryZero(memory_limit, out_size) ==
    IF ~memory_limit.given THEN [err |-> None, memory_arg |-> out_size]
    ELSE IF memory_limit.value < 0
         THEN (IF memory_limit.value = -1
               THEN [err |-> None, memory_arg |-> UnboundedMemory]
               ELSE [err |-> "NameError", memory_arg |-> 0])
         ELSE [err |-> None, memory_arg |-> memory_limit.value]

\* memory_arg from memory_limit; the name raised for a bad limit is not defined
\* in the module, so the raise itself fails with a NameError
ResolveMemory(memory_limit, out_size) ==
    IF ~memory_limit.given THEN [err |-> None, memory_arg |-> out_size]
    ELSE IF memory_limit.value < 1
         THEN (IF memory_limit.value = -1
               THEN [err |-> None, memory_arg |-> UnboundedMemory]
               ELSE [err |-> "NameError", memory_arg |-> 0])
         ELSE [err |-> None, memory_arg |-> memory_limit.value]

StrPath(name) == [kind |-> "str", name |-> name, list |-> <<>>]

ListPath(p) == [kind |-> "list", name |-> "", list |-> p]

\* the path for the call with the optimal search handed the full label set in
\* the place of the output set
ComputePathMixedSets(path_type, input_list, input_sets, output_set, indices, dd, memory_arg) ==
    IF path_type.kind # "str"
    THEN [err |-> None, path |-> path_type.list, searched |-> None]
    ELSE IF Len(input_list) = 1
    THEN [err |-> None, path |-> <<{0}>>, searched |-> None]
    ELSE IF Len(input_list) = 2
    THEN [err |-> None, path |-> <<{0, 1}>>, searched |-> None]
    ELSE IF indices = output_set
    THEN [err |-> None, path |-> <<0..(Len(input_list) - 1)>>, searched |-> None]
    ELSE IF path_type.name \in {"greedy", "opportunistic"}
    THEN [err |-> None, path |-> greedy(input_sets, output_set, dd, memory_arg),
          searched |-> "greedy"]
    ELSE IF path_type.name = "optimal"
    THEN [err |-> None, path |-> optimal(input_sets, indices, dd, memory_arg),
          searched |-> "optimal"]
    ELSE [err |-> "KeyError", path |-> <<>>, searched |-> None]

\* the path for the call with the search tried before the two-operand case
ComputePathSearchFirst(path_type, input_list, input_sets, output_set, indices, dd, memory_arg) ==
    IF path_type.kind # "str"
    THEN [err |-> None, path |-> path_type.list, searched |-> None]
    ELSE IF Len(input_list) = 1
    THEN [err |-> None, path |-> <<{0}>>, searched |-> None]
    ELSE IF path_type.name \in {"greedy", "opportunistic"}
    THEN [err |-> None, path |-> greedy(input_sets, output_set, dd, memory_arg),
          searched |-> "greedy"]
    ELSE IF path_type.name = "optimal"
    THEN [err |-> None, path |-> optimal(input_sets, output_set, dd, memory_arg),
          searched |-> "optimal"]
    ELSE IF Len(input_list) = 2
    THEN [err |-> None, path |-> <<{0, 1}>>, searched |-> None]
    ELSE IF indices = output_set
    THEN [err |-> None, path |-> <<0..(Len(input_list) - 1)>>, searched |-> None]
    ELSE [err |-> "KeyError", path |-> <<>>, searched |-> None]

\* the path for the call: a caller's list as it is, the identity paths, or a
\* search by name
ComputePath(path_type, input_list, input_sets, output_set, indices, dd, memory_arg) ==
    IF path_type.kind # "str"
    THEN [err |-> None, path |-> path_type.list, searched |-> None]
    ELSE IF Len(input_list) = 1
    THEN [err |-> None, path |-> <<{0}>>, searched |-> None]
    ELSE IF Len(input_list) = 2
    THEN [err |-> None, path |-> <<{0, 1}>>, searched |-> None]
    ELSE IF indices = output_set
    THEN [err |-> None, path |-> <<0..(Len(input_list) - 1)>>, searched |-> None]
    ELSE IF path_type.name \in {"greedy", "opportunistic"}
    THEN [err |-> None, path |-> greedy(input_sets, output_set, dd, memory_arg),
          searched |-> "greedy"]
    ELSE IF path_type.name = "optimal"
    THEN [err |-> None, path |-> optimal(input_sets, output_set, dd, memory_arg),
          searched |-> "optimal"]
    ELSE [err |-> "KeyError", path |-> <<>>, searched |-> None]

\* tmp_inputs and the list left, popping the positions in the order given
RECURSIVE PopAll(_, _)
PopAll(list, inds) ==
    IF Len(inds) = 0 THEN [popped |-> <<>>, rest |-> list]
    ELSE LET r == PopAll(PopAt(list, inds[1]), Tail(inds))
         IN [popped |-> <<list[inds[1] + 1]>> \o r.popped, rest |-> r.rest]

\* the estimated cost of one contraction
StepCost(contract, num_terms, dd) ==
    flop_count(contract.idx_contract, contract.idx_removed # {}, num_terms, dd)

LastContractionOffByOne(cnum, path) == (cnum - Len(path)) = 0

\* the last contraction taken to be the one before it
LastContractionEarly(cnum, path) == (cnum - Len(path)) = -2

\* is this the last contraction of the path
LastContraction(cnum, path) == (cnum - Len(path)) = -1

\* one pass of the loop that builds the contraction list; cnum is 0-based
BuildContraction(cnum, path, input_list, input_sets, output_subscript, dd, use_blas) ==
    LET contract_inds == SortedDesc(path[cnum + 1])
        output_set    == SetOf(output_subscript)
        contract      == find_contraction(path[cnum + 1], input_sets, output_set)
        out_inds      == contract.new_result
        idx_removed   == contract.idx_removed
        cost          == StepCost(contract, Len(contract_inds), dd)
    IN IF \E x \in path[cnum + 1] : x >= Len(input_list)
       THEN [err |-> "IndexError"]
       ELSE LET pops       == PopAll(input_list, contract_inds)
                tmp_inputs == pops.popped
                do_blas    == IF use_blas THEN can_blas(tmp_inputs, out_inds, idx_removed)
                              ELSE FALSE
                idx_result == IF LastContraction(cnum, path) THEN output_subscript
                              ELSE SortBySize(out_inds, dd)
                new_list   == Append(pops.rest, idx_result)
            IN [err |-> None,
                cost |-> cost,
                size |-> compute_size_by_dict(out_inds, dd),
                input_list |-> new_list,
                input_sets |-> contract.remaining,
                contraction |-> [inds |-> contract_inds,
                                 idx_rm |-> idx_removed,
                                 inputs |-> tmp_inputs,
                                 result |-> idx_result,
                                 remaining |-> new_list,
                                 blas |-> do_blas]]

\* the loop over the path, from the lists as they are before pass
\* Len(contraction_list); it stops at the first pass that raises
RECURSIVE BuildLoop(_, _, _, _, _, _, _, _)
BuildLoop(path, input_list, input_sets, output_subscript, dd, use_blas, contraction_list, cost_list) ==
    IF Len(contraction_list) = Len(path)
    THEN [err |-> None, input_list |-> input_list, input_sets |-> input_sets,
          contraction_list |-> contraction_list, cost_list |-> cost_list]
    ELSE LET r == BuildContraction(Len(contraction_list), path, input_list, input_sets,
                                   output_subscript, dd, use_blas)
         IN IF r.err # None
            THEN [err |-> r.err, input_list |-> input_list, input_sets |-> input_sets,
                  contraction_list |-> contraction_list, cost_list |-> cost_list]
            ELSE BuildLoop(path, r.input_list, r.input_sets, output_subscript, dd,
                           use_blas, Append(contraction_list, r.contraction),
                           Append(cost_list, r.cost))

\* --------------------------------------------------- the tensor primitives
\* a tensor is its shape and the buffer that holds it: Fresh for an array the
\* primitive allocated, Given for one of the caller's arguments, k >= 1 for
\* the output buffer of call k
Fresh == 0

Given == -1

Tensor(shape, buf) == [shape |-> shape, buf |-> buf]

NoOut == [given |-> FALSE, shape |-> <<>>, buf |-> Fresh]

\* str.find: the 0-based position of the first s in term, -1 when there is none
Find(term, s) ==
    IF \E k \in 1..Len(term) : term[k] = s
    THEN (CHOOSE k \in 1..Len(term) : term[k] = s /\ \A j \in 1..(k - 1) : term[j] # s) - 1
    ELSE -1

\* term with every label of idx_rm taken out
RECURSIVE Without(_, _)
Without(term, idx_rm) ==
    IF Len(term) = 0 THEN <<>>
    ELSE IF term[1] \in idx_rm THEN Without(Tail(term), idx_rm)
    ELSE <<term[1]>> \o Without(Tail(term), idx_rm)

\* a tuple indexed the way Python does it: -n..-1 count from the end
InRange(shape, x) == x >= -Len(shape) /\ x < Len(shape)

Norm(shape, x) == IF x < 0 THEN x + Len(shape) ELSE x

At(shape, x) == shape[Norm(shape, x) + 1]

\* numpy.tensordot's loop over the axis pairs: the first pair that cannot be
\* read raises IndexError, the first pair of unequal sizes ends the loop
RECURSIVE AxesCheck(_, _, _, _, _)
AxesCheck(as, bs, axes_a, axes_b, k) ==
    IF k > Len(axes_a) THEN None
    ELSE IF ~InRange(as, axes_a[k]) \/ ~InRange(bs, axes_b[k]) THEN "IndexError"
    ELSE IF At(as, axes_a[k]) # At(bs, axes_b[k]) THEN "ValueError"
    ELSE AxesCheck(as, bs, axes_a, axes_b, k + 1)

\* the axes of shape that axes does not name, in order
RECURSIVE NotIn(_, _, _)
NotIn(shape, axes, k) ==
    IF k > Len(shape) THEN <<>>
    ELSE IF (k - 1) \in axes THEN NotIn(shape, axes, k + 1)
    ELSE <<shape[k]>> \o NotIn(shape, axes, k + 1)

\* numpy.tensordot on two shapes: the axes are checked pair by pair, each
\* operand is transposed (which refuses an axis named twice), and the result
\* has the free axes of a, then those of b
Tensordot(as, bs, axes_a, axes_b) ==
    LET chk == AxesCheck(as, bs, axes_a, axes_b, 1)
    IN IF chk # None THEN [err |-> chk, shape |-> <<>>]
       ELSE LET na == {Norm(as, axes_a[k]) : k \in 1..Len(axes_a)}
                nb == {Norm(bs, axes_b[k]) : k \in 1..Len(axes_b)}
            IN IF Cardinality(na) # Len(axes_a) \/ Cardinality(nb) # Len(axes_b)
               THEN [err |-> "ValueError", shape |-> <<>>]
               ELSE [err |-> None, shape |-> NotIn(as, na, 1) \o NotIn(bs, nb, 1)]

\* the sizes the operands of an einsum give to label s, broadcast axes aside
SizesOf(s, in_terms, shapes) ==
    (UNION {{shapes[i][k] : k \in {m \in 1..Len(in_terms[i]) : in_terms[i][m] = s}} :
               i \in 1..Len(in_terms)}) \ {1}

\* numpy.einsum on shapes: the operands must be as many as the terms, each of
\* its term's rank, and agree on the size of each label; the result must name
\* input labels, each once; an output buffer must have the result's shape
Einsum(in_terms, result, shapes, out) ==
    IF \/ Len(shapes) # Len(in_terms)
       \/ \E i \in 1..Len(in_terms) : Len(shapes[i]) # Len(in_terms[i])
    THEN [err |-> "ValueError", shape |-> <<>>]
    ELSE LET labels == UNION {SetOf(in_terms[i]) : i \in 1..Len(in_terms)}
             size(s) == IF SizesOf(s, in_terms, shapes) = {} THEN 1
                        ELSE MaxOf(SizesOf(s, in_terms, shapes))
             shape   == [k \in 1..Len(result) |-> size(result[k])]
         IN IF \/ \E s \in labels : Cardinality(SizesOf(s, in_terms, shapes)) > 1
               \/ \E k \in 1..Len(result) : result[k] \notin labels
               \/ Cardinality(SetOf(result)) # Len(result)
               \/ out.given /\ out.shape # shape
            THEN [err |-> "ValueError", shape |-> <<>>]
            ELSE [err |-> None, shape |-> shape]

\* ------------------------------------------------------------ _core_contract
\* the orders a set can be iterated in
Orders(S) == {o \in [1..Cardinality(S) -> S] : \A i, j \in 1..Cardinality(S) : i # j => o[i] # o[j]}

\* einsum_kwargs.pop('out', None): the value, and the dict that is left
PopOutKept(kw) == [value |-> kw.out, dict |-> kw]

PopOut(kw) == [value |-> kw.out, dict |-> [kw EXCEPT !.out = NoOut]]

\* does this pass write the caller's buffer
HandleOut(specified_out, num, contraction_list) ==
    specified_out /\ ((num + 1) = Len(contraction_list))

\* one call of a primitive, as the log keeps it
LogEntry(num, prim, out) == [num |-> num, prim |-> prim, out |-> IF out.given THEN out.buf ELSE Fresh]

\* the tensor an einsum gives: the buffer it was handed, or a fresh array
EinsumView(shape, out) == Tensor(shape, IF out.given THEN out.buf ELSE Fresh)

\* the tensordot branch of a pass; order is the order idx_rm is iterated in
BlasPass(contraction, num, tmp_operands, handle_out, out_array, kw, order) ==
    LET input_left    == contraction.inputs[1]
        input_right   == contraction.inputs[2]
        results_index == contraction.result
        tensor_result == Without(input_left \o input_right, contraction.idx_rm)
        left_pos      == [k \in 1..Len(order) |-> Find(input_left, order[k])]
        right_pos     == [k \in 1..Len(order) |-> Find(input_right, order[k])]
        td            == Tensordot(tmp_operands[1].shape, tmp_operands[2].shape,
                                   left_pos, right_pos)
        log1          == <<LogEntry(num, "tensordot", NoOut)>>
    IN IF Len(tmp_operands) # 2
       THEN [err |-> "TypeError", kw |-> kw, log |-> <<>>, view |-> Tensor(<<>>, Fresh)]
       ELSE IF td.err # None
       THEN [err |-> td.err, kw |-> kw, log |-> log1, view |-> Tensor(<<>>, Fresh)]
       ELSE IF (tensor_result # results_index) \/ handle_out
       THEN LET kw2 == IF handle_out THEN [kw EXCEPT !.out = out_array] ELSE kw
                es  == Einsum(<<tensor_result>>, results_index, <<td.shape>>, kw2.out)
            IN [err |-> es.err, kw |-> kw2,
                log |-> Append(log1, LogEntry(num, "einsum", kw2.out)),
                view |-> EinsumView(es.shape, kw2.out)]
       ELSE [err |-> None, kw |-> kw, log |-> log1, view |-> Tensor(td.shape, Fresh)]

\* the einsum branch of a pass
EinsumPass(contraction, num, tmp_operands, handle_out, out_array, kw) ==
    LET kw2 == IF handle_out THEN [kw EXCEPT !.out = out_array] ELSE kw
        es  == Einsum(contraction.inputs, contraction.result,
                      [k \in 1..Len(tmp_operands) |-> tmp_operands[k].shape], kw2.out)
    IN [err |-> es.err, kw |-> kw2,
        log |-> <<LogEntry(num, "einsum", kw2.out)>>,
        view |-> EinsumView(es.shape, kw2.out)]

\* one pass of the contraction loop over the working list ops; num is 0-based
CorePass(contraction_list, num, ops, out_array, kw, order) ==
    LET contraction == contraction_list[num + 1]
        inds        == contraction.inds
    IN IF \E k \in 1..Len(inds) : inds[k] > Len(ops) - k
       THEN [err |-> "IndexError", kw |-> kw, log |-> <<>>, ops |-> ops]
       ELSE LET pops       == PopAll(ops, inds)
                handle_out == HandleOut(out_array.given, num, contraction_list)
                r == IF contraction.blas
                     THEN BlasPass(contraction, num, pops.popped, handle_out, out_array,
                                   kw, order)
                     ELSE EinsumPass(contraction, num, pops.popped, handle_out, out_array, kw)
            IN [err |-> r.err, kw |-> r.kw, log |-> r.log,
                ops |-> IF r.err = None THEN Append(pops.rest, r.view) ELSE pops.rest]

\* len(arrays) != self.num_args
CountMismatchFewer(arrays, num_args) == Len(arrays) < num_args

CountMismatch(arrays, num_args) == Len(arrays) # num_args

\* what the caller of a ContractExpression sees of an exception of the core
Wrap(kind) ==
    [kind |-> kind, wrapped |-> (kind = "ValueError"), at |-> "core",
     expected |-> 0, received |-> 0]

\* ------------------------------------------------------------------- inputs
Sizes == {2, 3}

\* the declared size of each label: the first k labels have size 2, the rest 3
DimTables == {[l \in Labels |-> IF l <= k THEN 2 ELSE 3] : k \in {1, NLabels}}

Terms == UNION {[1..r -> Labels] : r \in 1..MaxRank}

\* the labels of a list of terms in the order they first appear
RECURSIVE FirstUses(_, _)
FirstUses(flat, seen) ==
    IF Len(flat) = 0 THEN seen
    ELSE IF flat[1] \in SetOf(seen) THEN FirstUses(Tail(flat), seen)
    ELSE FirstUses(Tail(flat), Append(seen, flat[1]))

RECURSIVE Flatten(_)
Flatten(list) == IF Len(list) = 0 THEN <<>> ELSE list[1] \o Flatten(Tail(list))

\* the input lists, one for each way of naming the labels: the labels are
\* numbered in the order they first appear
InputLists ==
    {il \in UNION {[1..n -> Terms] : n \in 1..MaxOps} :
        LET f == FirstUses(Flatten(il), <<>>) IN \A i \in 1..Len(f) : f[i] = i}

\* an output names labels of the inputs, each at most once
Outputs(input_list) ==
    LET used == UNION {SetOf(input_list[i]) : i \in 1..Len(input_list)}
    IN {o \in UNION {[1..r -> used] : r \in 0..MaxRank} :
           \A i, j \in 1..Len(o) : i # j => o[i] # o[j]}

\* the operands of a call: shapes that follow the declared sizes, or the same
\* with one operand's last axis dropped, an axis added, or its first axis resized
Faults(n) == {[kind |-> "none", at |-> 0]}
                 \cup {[kind |-> k, at |-> i] : k \in {"drop", "extra", "resize"}, i \in 1..n}

ShapesOf(input_list, sz, fault) ==
    [i \in 1..Len(input_list) |->
        LET sh == [k \in 1..Len(input_list[i]) |-> sz[input_list[i][k]]]
        IN IF fault.at # i THEN sh
           ELSE IF fault.kind = "drop" THEN SubSeq(sh, 1, Len(sh) - 1)
           ELSE IF fault.kind = "extra" THEN Append(sh, 2)
           ELSE [sh EXCEPT ![1] = sh[1] + 1]]

MemoryLimits == {NoLimit, Limit(-1), Limit(0), Limit(1), Limit(4)}

PathNames == {"greedy", "optimal", "bogus"}

MaxPathLen == 2

\* the caller's explicit paths: up to MaxPathLen groups, each the first two
\* positions or all positions
ExplicitPaths(n) ==
    UNION {[1..k -> {{0, 1}, 0..(n - 1)}] : k \in 0..MaxPathLen}

PathTypes(n) == {StrPath(m) : m \in PathNames} \cup {ListPath(p) : p \in ExplicitPaths(n)}

ExtraKeys == {"None", "dtype", "bogus"}

\* operands that do not fit the terms: a rank that is not the term's length, or
\* a label that stands for two sizes
Malformed(input_list, ops) ==
    \/ \E i \in 1..Len(input_list) : Len(ops[i]) # Len(input_list[i])
    \/ \E i, j \in 1..Len(input_list) :
           /\ Len(ops[i]) = Len(input_list[i])
           /\ Len(ops[j]) = Len(input_list[j])
           /\ \E a \in 1..Len(ops[i]), b \in 1..Len(ops[j]) :
                  input_list[i][a] = input_list[j][b] /\ ops[i][a] # ops[j][b]

\* -------------------------------------------------------------------- state
VARIABLES
    pc,               \* where the call is
    frame,            \* the function that was called
    extra_key,        \* a keyword beyond the options, or "None"
    optimize_off,     \* contract was called with optimize=False
    terms,            \* the input terms as parsed
    output_subscript, \* the output term as parsed
    operands,         \* the operands' shapes
    dimension_dict,
    memory_limit,
    memory_arg,
    path_type,
    use_blas,
    path,
    searched,         \* the path search that ran, or "None"
    input_list,
    input_sets,
    contraction_list,
    cost_list,
    error,            \* the exception that ended the call
    einsum_direct,    \* contract handed the whole expression to einsum
    expr,             \* the ContractExpression, or the plan contract executes
    cpc,              \* where each execution is
    lists,            \* the list objects: the callers' sequences and the working lists
    operands_ref,     \* the list each execution works on
    dicts,            \* the dict objects: the stored options and each execution's own
    kwargs_ref,       \* the dict each execution holds as einsum_kwargs
    out_array,        \* each execution's out_array
    num,              \* each execution's loop counter
    buffers,          \* the callers' output buffers and the writes they received
    log,              \* the primitives each execution called
    result,           \* what each execution returned
    raised,           \* what each execution raised
    miscounted,       \* an earlier call failed the count of its arguments
    stack,            \* the partial sequences the optimal search has yet to visit
    best,             \* the cheapest complete sequence the optimal search has found
    merges            \* the merges a search has made, or the sequences it has completed

planVars == <<pc, frame, extra_key, optimize_off, terms, output_subscript, operands,
              dimension_dict, memory_limit, memory_arg, path_type, use_blas, path,
              searched, input_list, input_sets, contraction_list, cost_list, error,
              einsum_direct>>

execVars == <<expr, cpc, lists, operands_ref, dicts, kwargs_ref, out_array, num, buffers,
              log, result, raised, miscounted>>

searchVars == <<stack, best, merges>>

vars == <<planVars, execVars, searchVars>>

NCalls == 2

Calls == 1..NCalls

\* the dict that holds the stored options, and the lists of the callers
Stored == 0

NoExpr == [via |-> None, contraction_list |-> <<>>, num_args |-> 0]

NoDict == [out |-> NoOut, keys |-> {}]

NoBuffer == [shape |-> <<>>, writes |-> <<>>]

NoTensor == Tensor(<<>>, -2)

NoRaise == [kind |-> None, wrapped |-> FALSE, at |-> None, expected |-> 0, received |-> 0]

\* no execution has started
ExecIdle ==
    /\ cpc = [c \in Calls |-> "idle"]
    /\ lists = [k \in 1..(2 * NCalls) |-> <<>>]
    /\ operands_ref = [c \in Calls |-> 0]
    /\ kwargs_ref = [c \in Calls |-> Stored]
    /\ out_array = [c \in Calls |-> NoOut]
    /\ num = [c \in Calls |-> 0]
    /\ buffers = [c \in Calls |-> NoBuffer]
    /\ log = [c \in Calls |-> <<>>]
    /\ result = [c \in Calls |-> NoTensor]
    /\ raised = [c \in Calls |-> NoRaise]
    /\ miscounted = FALSE

NoBest == [found |-> FALSE, cost |-> 0, path |-> <<>>]

\* no search is under way
SearchIdle ==
    /\ stack = <<>>
    /\ best = NoBest
    /\ merges = 0

NoError == [kind |-> None, at |-> None]

Undrawn == [kind |-> "none", name |-> "", list |-> <<>>]

Init ==
    /\ terms \in InputLists
    /\ output_subscript \in Outputs(terms)
    /\ pc = "start"
    /\ frame = "none"
    /\ extra_key = "None"
    /\ optimize_off = FALSE
    /\ operands = <<>>
    /\ dimension_dict = [l \in Labels |-> 0]
    /\ memory_limit = NoLimit
    /\ memory_arg = 0
    /\ path_type = Undrawn
    /\ use_blas = TRUE
    /\ path = <<>>
    /\ searched = None
    /\ input_list = terms
    /\ input_sets = [i \in 1..Len(terms) |-> SetOf(terms[i])]
    /\ contraction_list = <<>>
    /\ cost_list = <<>>
    /\ error = NoError
    /\ einsum_direct = FALSE
    /\ expr = NoExpr
    /\ dicts = [k \in 0..NCalls |-> NoDict]
    /\ ExecIdle
    /\ SearchIdle

\* contract_path(...): the keyword check
ContractPathEnter ==
    /\ pc = "start"
    /\ \E k \in ExtraKeys :
        /\ extra_key' = k
        /\ frame' = "contract_path"
        /\ IF unknown_kwargs(valid_contract_kwargs \cup ({k} \ {"None"})) # {}
           THEN pc' = "error" /\ error' = [kind |-> "TypeError", at |-> "kwargs"]
           ELSE pc' = "parsed" /\ error' = error
    /\ UNCHANGED <<optimize_off, terms, output_subscript, operands, dimension_dict,
                   memory_limit, memory_arg, path_type, use_blas, path, searched,
                   input_list, input_sets, contraction_list, cost_list, einsum_direct>>
    /\ UNCHANGED <<execVars, searchVars>>

\* contract(...): optimize=False goes to einsum with the einsum keywords; else
\* the keyword check, then the call of contract_path with the options contract
\* passes on
ContractEnter ==
    /\ pc = "start"
    /\ \E k \in ExtraKeys, off \in BOOLEAN :
        IF off
        THEN /\ pc' = "done" /\ frame' = "contract" /\ extra_key' = k
             /\ optimize_off' = TRUE /\ einsum_direct' = TRUE /\ error' = error
        ELSE IF contract_unknown_kwargs({"optimize"} \cup ({k} \ {"None"})) # {}
        THEN /\ pc' = "error" /\ frame' = "contract" /\ extra_key' = k
             /\ error' = [kind |-> "TypeError", at |-> "kwargs"]
             /\ UNCHANGED <<optimize_off, einsum_direct>>
        ELSE /\ pc' = "parsed" /\ frame' = "contract_path" /\ extra_key' = "None"
             /\ UNCHANGED <<optimize_off, einsum_direct, error>>
    /\ UNCHANGED <<terms, output_subscript, operands, dimension_dict,
                   memory_limit, memory_arg, path_type, use_blas, path, searched,
                   input_list, input_sets, contraction_list, cost_list>>
    /\ UNCHANGED <<execVars, searchVars>>

\* the dimension table, from the operands of the call
DimensionTable ==
    /\ pc = "parsed"
    /\ \E sz \in DimTables, fault \in Faults(Len(terms)) :
        \E ops \in {ShapesOf(terms, sz, fault)} :
        \E r \in {BuildDimensionDict(input_list, ops)} :
           /\ fault.kind = "none" \/ Malformed(terms, ops)
           /\ operands' = ops
           /\ dimension_dict' = r.dd
           /\ IF r.err # None
              THEN pc' = "error" /\ error' = [kind |-> r.err, at |-> "dims"]
              ELSE pc' = "dims" /\ error' = error
    /\ UNCHANGED <<frame, extra_key, optimize_off, terms, output_subscript,
                   memory_limit, memory_arg, path_type, use_blas, path, searched,
                   input_list, input_sets, contraction_list, cost_list, einsum_direct>>
    /\ UNCHANGED <<execVars, searchVars>>

\* the memory bound, from the memory_limit of the call
MemoryBound ==
    /\ pc = "dims"
    /\ \E ml \in MemoryLimits :
        LET r == ResolveMemory(ml, OutSize(input_list, output_subscript, dimension_dict))
        IN /\ memory_limit' = ml
           /\ memory_arg' = r.memory_arg
           /\ IF r.err # None
              THEN pc' = "error" /\ error' = [kind |-> r.err, at |-> "memory"]
              ELSE pc' = "memory" /\ error' = error
    /\ UNCHANGED <<frame, extra_key, optimize_off, terms, output_subscript, operands,
                   dimension_dict, path_type, use_blas, path, searched,
                   input_list, input_sets, contraction_list, cost_list, einsum_direct>>
    /\ UNCHANGED <<execVars, searchVars>>

\* the path, from the path and use_blas options of the call, then the loop
\* over the path that builds the contraction list, and the return: with
\* einsum_call, as contract calls it, the contraction list, else the path and
\* its printed table, whose largest scaling needs a contraction
Plan ==
    /\ pc = "memory"
    /\ \E pt \in PathTypes(Len(terms)), ub \in BOOLEAN :
        \E r \in {ComputePath(pt, input_list, input_sets, SetOf(output_subscript),
                             UnionOf(input_sets), dimension_dict, memory_arg)} :
        \E b \in {BuildLoop(r.path, input_list, input_sets, output_subscript,
                            dimension_dict, ub, <<>>, <<>>)} :
        \E einsum_call_arg \in BOOLEAN :
           /\ path_type' = pt
           /\ use_blas' = ub
           /\ path' = r.path
           /\ searched' = r.searched
           /\ IF r.err # None
              THEN /\ pc' = "error" /\ error' = [kind |-> r.err, at |-> "path"]
                   /\ UNCHANGED <<input_list, input_sets, contraction_list, cost_list>>
              ELSE /\ input_list' = b.input_list
                   /\ input_sets' = b.input_sets
                   /\ contraction_list' = b.contraction_list
                   /\ cost_list' = b.cost_list
                   /\ IF b.err # None
                      THEN pc' = "error" /\ error' = [kind |-> b.err, at |-> "build"]
                      ELSE IF ~einsum_call_arg /\ b.contraction_list = <<>>
                      THEN pc' = "error" /\ error' = [kind |-> "ValueError", at |-> "print"]
                      ELSE pc' = "done" /\ error' = error
    /\ UNCHANGED <<frame, extra_key, optimize_off, terms, output_subscript, operands,
                   dimension_dict, memory_limit, memory_arg, einsum_direct>>
    /\ UNCHANGED <<execVars, searchVars>>

Next ==
    \/ ContractPathEnter
    \/ ContractEnter
    \/ DimensionTable
    \/ MemoryBound
    \/ Plan

Spec == Init /\ [][Next]_vars

\* ---------------------------------------------------------------- execution
\* the expressions that are executed, the paths they are planned with and the
\* sequences they are called with
ExecInputLists ==
    {il \in InputLists :
        Len(il) = MaxOps => \A i \in 1..Len(il) : Len(il[i]) = 2 /\ il[i][1] # il[i][2]}

ExecPathTypes(n, via) ==
    IF via = "expression"
    THEN {StrPath("greedy"), StrPath("optimal"), ListPath(<<0..(n - 1)>>)}
    ELSE {StrPath("greedy"), ListPath(<<>>), ListPath(<<{0, 1}>>)}

ExecSizes == [l \in Labels |-> IF l = 1 THEN 2 ELSE 3]

\* the calls that do not fit: a tensor that does not fit its term, a tensor
\* missing or one too many, or a keyword other than out
CallFaults(n) == Faults(n) \cup {[kind |-> k, at |-> 0] : k \in {"fewer", "more", "keyword"}}

NoFault == {[kind |-> "none", at |-> 0]}

\* the shapes of the tensors of a call
CallShapes(fault) ==
    IF fault.kind = "fewer" THEN SubSeq(operands, 1, Len(operands) - 1)
    ELSE IF fault.kind = "more" THEN Append(operands, operands[1])
    ELSE ShapesOf(terms, dimension_dict, fault)

\* the shape of the result of the expression
OutShape == [k \in 1..Len(output_subscript) |-> dimension_dict[output_subscript[k]]]

\* out=None or out= a buffer of the caller with the result's shape
RightOut(c) == {NoOut, [given |-> TRUE, shape |-> OutShape, buf |-> c]}

\* the same, or a buffer with an axis too many
OutOptions(c) == RightOut(c) \cup {[given |-> TRUE, shape |-> Append(OutShape, 2), buf |-> c]}

\* the calls of one caller: tensors that do not fit with a buffer that does,
\* tensors that fit with any buffer
CallOptions(c, n) ==
    (CallFaults(n) \X RightOut(c)) \cup (NoFault \X OutOptions(c))

\* the state after contract_expression (via = "expression"), or after the
\* contract_path call inside contract (via = "contract"), returned
Constructed(vias) ==
    \E il \in ExecInputLists, via \in vias, ub \in BOOLEAN :
    \E out \in Outputs(il), pt \in ExecPathTypes(Len(il), via) :
    \E ops \in {ShapesOf(il, ExecSizes, [kind |-> "none", at |-> 0])} :
    \E d \in {BuildDimensionDict(il, ops)} :
    \E m \in {ResolveMemory(NoLimit, OutSize(il, out, d.dd))} :
    \E sets \in {[i \in 1..Len(il) |-> SetOf(il[i])]} :
    \E r \in {ComputePath(pt, il, sets, SetOf(out), UnionOf(sets), d.dd, m.memory_arg)} :
    \E b \in {BuildLoop(r.path, il, sets, out, d.dd, ub, <<>>, <<>>)} :
        /\ via = "expression" => (pt.kind = "str" \/ pt.list # <<>>)
        /\ b.err = None
        /\ terms = il
        /\ output_subscript = out
        /\ pc = "done"
        /\ frame = "contract_path"
        /\ extra_key = "None"
        /\ optimize_off = FALSE
        /\ operands = ops
        /\ dimension_dict = d.dd
        /\ memory_limit = NoLimit
        /\ memory_arg = m.memory_arg
        /\ path_type = pt
        /\ use_blas = ub
        /\ path = r.path
        /\ searched = r.searched
        /\ input_list = b.input_list
        /\ input_sets = b.input_sets
        /\ contraction_list = b.contraction_list
        /\ cost_list = b.cost_list
        /\ error = NoError
        /\ einsum_direct = FALSE
        /\ expr = [via |-> via, contraction_list |-> b.contraction_list,
                   num_args |-> Len(il)]
        /\ dicts = [k \in 0..NCalls |-> NoDict]
        /\ ExecIdle
    /\ SearchIdle

\* list(arrays): a new list
ListCopy(c) == NCalls + c

\* **self.einsum_kwargs: a new dict
UnpackAlias(c) == Stored

UnpackKwargs(c) == c

\* the first lines of _core_contract, on the tensors and the out of a call
CoreEnter(c, arrays, o) ==
    LET pop == PopOut([out |-> o, keys |-> dicts[Stored].keys])
    IN /\ lists' = [lists EXCEPT ![c] = arrays, ![ListCopy(c)] = arrays]
       /\ operands_ref' = [operands_ref EXCEPT ![c] = ListCopy(c)]
       /\ kwargs_ref' = [kwargs_ref EXCEPT ![c] = UnpackKwargs(c)]
       /\ dicts' = [dicts EXCEPT ![UnpackKwargs(c)] = pop.dict]
       /\ out_array' = [out_array EXCEPT ![c] = pop.value]
       /\ cpc' = [cpc EXCEPT ![c] = "core"]
       /\ raised' = [raised EXCEPT ![c] = NoRaise]
       /\ miscounted' = miscounted

\* ContractExpression.__call__ up to the loop of _core_contract: the count of
\* the tensors, the keywords other than out, then the first lines of _core_contract
ExprCall(c, options) ==
    /\ expr.via = "expression"
    /\ cpc[c] = "idle"
    /\ \E fo \in options :
        LET f      == fo[1]
            o      == fo[2]
            shapes == CallShapes(f)
            arrays == [k \in 1..Len(shapes) |-> Tensor(shapes[k], Given)]
        IN /\ buffers' = [buffers EXCEPT ![c] = [shape |-> o.shape, writes |-> <<>>]]
           /\ log' = [log EXCEPT ![c] = <<>>]
           /\ result' = [result EXCEPT ![c] = NoTensor]
           /\ num' = [num EXCEPT ![c] = 0]
           /\ IF CountMismatch(arrays, expr.num_args)
              THEN /\ cpc' = [cpc EXCEPT ![c] = "raised"]
                   /\ raised' = [raised EXCEPT ![c] =
                                    [kind |-> "ValueError", wrapped |-> FALSE, at |-> "count",
                                     expected |-> expr.num_args, received |-> Len(arrays)]]
                   /\ miscounted' = TRUE
                   /\ lists' = [lists EXCEPT ![c] = arrays, ![NCalls + c] = <<>>]
                   /\ operands_ref' = [operands_ref EXCEPT ![c] = 0]
                   /\ kwargs_ref' = [kwargs_ref EXCEPT ![c] = Stored]
                   /\ out_array' = [out_array EXCEPT ![c] = NoOut]
                   /\ dicts' = dicts
              ELSE IF f.kind = "keyword"
              THEN /\ cpc' = [cpc EXCEPT ![c] = "raised"]
                   /\ raised' = [raised EXCEPT ![c] =
                                    [kind |-> "ValueError", wrapped |-> FALSE, at |-> "kwargs",
                                     expected |-> 0, received |-> 0]]
                   /\ miscounted' = miscounted
                   /\ lists' = [lists EXCEPT ![c] = arrays, ![NCalls + c] = <<>>]
                   /\ operands_ref' = [operands_ref EXCEPT ![c] = 0]
                   /\ kwargs_ref' = [kwargs_ref EXCEPT ![c] = Stored]
                   /\ out_array' = [out_array EXCEPT ![c] = NoOut]
                   /\ dicts' = dicts
              ELSE CoreEnter(c, arrays, o)
    /\ UNCHANGED <<searchVars, planVars, expr>>

\* contract, from the return of contract_path to the loop of _core_contract
ContractCall(c, outs) ==
    /\ expr.via = "contract"
    /\ cpc[c] = "idle"
    /\ \E o \in outs :
        /\ buffers' = [buffers EXCEPT ![c] = [shape |-> o.shape, writes |-> <<>>]]
        /\ log' = [log EXCEPT ![c] = <<>>]
        /\ result' = [result EXCEPT ![c] = NoTensor]
        /\ num' = [num EXCEPT ![c] = 0]
        /\ CoreEnter(c, [k \in 1..Len(operands) |-> Tensor(operands[k], Given)], o)
    /\ UNCHANGED <<searchVars, planVars, expr>>

\* the buffer a pass wrote: the one its last primitive was handed
Written(r) ==
    IF r.err = None /\ Len(r.log) > 0 THEN r.log[Len(r.log)].out ELSE Fresh

\* one pass of the loop of _core_contract
CoreStep(c) ==
    /\ cpc[c] = "core"
    /\ num[c] < Len(expr.contraction_list)
    /\ \E order \in Orders(expr.contraction_list[num[c] + 1].idx_rm) :
       \E r \in {CorePass(expr.contraction_list, num[c], lists[operands_ref[c]],
                          out_array[c], dicts[kwargs_ref[c]], order)} :
          /\ lists' = [lists EXCEPT ![operands_ref[c]] = r.ops]
          /\ dicts' = [dicts EXCEPT ![kwargs_ref[c]] = r.kw]
          /\ log' = [log EXCEPT ![c] = @ \o r.log]
          /\ buffers' = IF Written(r) = Fresh THEN buffers
                        ELSE [buffers EXCEPT ![Written(r)].writes =
                                 Append(@, [by |-> c, num |-> num[c]])]
          /\ IF r.err # None
             THEN /\ cpc' = [cpc EXCEPT ![c] = "raised"]
                  /\ raised' = [raised EXCEPT ![c] =
                                   IF expr.via = "expression" THEN Wrap(r.err)
                                   ELSE [Wrap(r.err) EXCEPT !.wrapped = FALSE]]
                  /\ num' = num
             ELSE /\ num' = [num EXCEPT ![c] = @ + 1]
                  /\ UNCHANGED <<cpc, raised>>
    /\ UNCHANGED <<searchVars, planVars, expr, operands_ref, kwargs_ref, out_array, result, miscounted>>

\* the return of _core_contract
CoreReturn(c) ==
    /\ cpc[c] = "core"
    /\ num[c] = Len(expr.contraction_list)
    /\ IF out_array[c].given
       THEN /\ result' = [result EXCEPT ![c] = Tensor(out_array[c].shape, out_array[c].buf)]
            /\ cpc' = [cpc EXCEPT ![c] = "returned"]
            /\ raised' = raised
       ELSE IF Len(lists[operands_ref[c]]) = 0
       THEN /\ cpc' = [cpc EXCEPT ![c] = "raised"]
            /\ raised' = [raised EXCEPT ![c] =
                             [Wrap("IndexError") EXCEPT !.wrapped = FALSE]]
            /\ result' = result
       ELSE /\ result' = [result EXCEPT ![c] = lists[operands_ref[c]][1]]
            /\ cpc' = [cpc EXCEPT ![c] = "returned"]
            /\ raised' = raised
    /\ UNCHANGED <<searchVars, planVars, expr, lists, operands_ref, dicts, kwargs_ref, out_array, num,
                   buffers, log, miscounted>>

\* the call is over: its frame, its working list and its dict are gone, and the
\* caller lets go of what it passed and what it got
CallOver(c) ==
    /\ cpc[c] \in {"returned", "raised"}
    /\ cpc' = [cpc EXCEPT ![c] = "idle"]
    /\ lists' = [lists EXCEPT ![c] = <<>>, ![NCalls + c] = <<>>]
    /\ operands_ref' = [operands_ref EXCEPT ![c] = 0]
    /\ kwargs_ref' = [kwargs_ref EXCEPT ![c] = Stored]
    /\ dicts' = [dicts EXCEPT ![c] = NoDict]
    /\ out_array' = [out_array EXCEPT ![c] = NoOut]
    /\ num' = [num EXCEPT ![c] = 0]
    /\ buffers' = [buffers EXCEPT ![c] = NoBuffer]
    /\ log' = [log EXCEPT ![c] = <<>>]
    /\ result' = [result EXCEPT ![c] = NoTensor]
    /\ raised' = [raised EXCEPT ![c] = NoRaise]
    /\ UNCHANGED <<searchVars, planVars, expr, miscounted>>

\* one caller, one call after the other, of an expression or of contract
ExpressionCalled == ExprCall(1, CallOptions(1, Len(terms)))

ContractCalled == ContractCall(1, OutOptions(1))

ContractionDone == CoreStep(1)

Returned == CoreReturn(1)

Over == CallOver(1)

InitCall == Constructed({"expression", "contract"})

NextCall == ExpressionCalled \/ ContractCalled \/ ContractionDone \/ Returned \/ Over

SpecCall == InitCall /\ [][NextCall]_vars

\* two callers of one expression, each with its own tensors and its own buffer
ConcurrentCall == \E c \in Calls : ExprCall(c, NoFault \X RightOut(c))

ConcurrentStep == \E c \in Calls : CoreStep(c)

ConcurrentReturn == \E c \in Calls : CoreReturn(c)

ConcurrentOver == \E c \in Calls : CallOver(c)

InitConc == Constructed({"expression"})

NextConc == ConcurrentCall \/ ConcurrentStep \/ ConcurrentReturn \/ ConcurrentOver

SpecConc == InitConc /\ [][NextConc]_vars

\* --------------------------------------------------------------- path search
\* the two strategies contract_path calls, a merge or a visit at a time
SearchLimits == {NoLimit, Limit(-1), Limit(1), Limit(4)}

\* a strategy is handed sets of labels: one term stands for each set, the one
\* with its labels in order
Increasing(term) == \A k \in 1..(Len(term) - 1) : term[k] < term[k + 1]

SearchInputs == {il \in InputLists : \A i \in 1..Len(il) : Increasing(il[i])}

SearchOutputs(il) == {out \in Outputs(il) : Increasing(out)}

\* a level of the optimal search: the operand sets it has reached, the
\* accumulated cost, the groups contracted so far and the pairs it has yet to try
Level(sets, cost, p) == [sets |-> sets, cost |-> cost, path |-> p, todo |-> Pairs(Len(sets))]

\* the estimated cost of contracting pair p of a list of operand sets
PairCost(p, sets, output_set, dd) ==
    CHOOSE cost \in {flop_count(c.idx_contract, c.idx_removed # {}, 2, dd) :
                         c \in {find_contraction(p, sets, output_set)}} : TRUE

\* the pair a level tries next: the cheapest of those it has yet to try, then
\* the first by position
NextPair(level, output_set, dd) ==
    CHOOSE p \in level.todo :
        \A q \in level.todo :
            \E kp \in {<<PairCost(p, level.sets, output_set, dd), MinOf(p), MaxOf(p)>>},
               kq \in {<<PairCost(q, level.sets, output_set, dd), MinOf(q), MaxOf(q)>>} :
                LexLeq(kp, kq)

\* a pair is pruned when its new operand is above the memory bound, or when the
\* accumulated cost with it is above the cheapest complete sequence so far
Pruned(cost, new_result, dd, limit, bound) ==
    \/ compute_size_by_dict(new_result, dd) > limit
    \/ bound.found /\ cost > bound.cost

\* no strategy has been called yet
InitSearch ==
    /\ pc = "start"
    /\ terms = <<>>
    /\ output_subscript = <<>>
    /\ operands = <<>>
    /\ dimension_dict = [l \in Labels |-> 0]
    /\ memory_limit = NoLimit
    /\ memory_arg = 0
    /\ searched = None
    /\ path_type = Undrawn
    /\ frame = "none"
    /\ extra_key = "None"
    /\ optimize_off = FALSE
    /\ use_blas = TRUE
    /\ path = <<>>
    /\ input_list = <<>>
    /\ input_sets = <<>>
    /\ contraction_list = <<>>
    /\ cost_list = <<>>
    /\ error = NoError
    /\ einsum_direct = FALSE
    /\ expr = NoExpr
    /\ dicts = [k \in 0..NCalls |-> NoDict]
    /\ ExecIdle
    /\ SearchIdle

\* the call of a strategy, as contract_path makes it: the operand sets, the
\* output set, the dimension table and the resolved memory bound
SearchCall ==
    /\ pc = "start"
    /\ \E il \in SearchInputs, sz \in DimTables, ml \in SearchLimits,
          name \in {"greedy", "optimal"} :
       \E out \in SearchOutputs(il) :
          /\ terms' = il
          /\ output_subscript' = out
          /\ operands' = ShapesOf(il, sz, [kind |-> "none", at |-> 0])
          /\ dimension_dict' = BuildDimensionDict(il, operands').dd
          /\ memory_limit' = ml
          /\ memory_arg' = ResolveMemory(ml, OutSize(il, out, dimension_dict')).memory_arg
          /\ searched' = name
          /\ path_type' = StrPath(name)
          /\ input_list' = il
          /\ input_sets' = [i \in 1..Len(il) |-> SetOf(il[i])]
          /\ stack' = IF name = "optimal" THEN <<Level(input_sets', 0, <<>>)>> ELSE <<>>
    /\ pc' = "search"
    /\ frame' = "contract_path"
    /\ UNCHANGED <<extra_key, optimize_off, use_blas, path, contraction_list, cost_list,
                   error, einsum_direct, best, merges>>
    /\ UNCHANGED execVars

\* greedy: one merge of the pair the strategy chooses
GreedyMerge ==
    /\ pc = "search"
    /\ searched = "greedy"
    /\ Len(input_sets) > 1
    /\ \E p \in {GreedyChoice(input_sets, SetOf(output_subscript), dimension_dict,
                              memory_arg)} :
       \E c \in {find_contraction(p, input_sets, SetOf(output_subscript))} :
          /\ input_sets' = c.remaining
          /\ path' = Append(path, p)
    /\ merges' = merges + 1
    /\ UNCHANGED <<pc, frame, extra_key, optimize_off, terms, output_subscript, operands,
                   dimension_dict, memory_limit, memory_arg, path_type, use_blas, searched,
                   input_list, contraction_list, cost_list, error, einsum_direct,
                   stack, best>>
    /\ UNCHANGED execVars

\* greedy: one operand remains, the path is returned
GreedyReturn ==
    /\ pc = "search"
    /\ searched = "greedy"
    /\ Len(input_sets) <= 1
    /\ pc' = "found"
    /\ UNCHANGED <<frame, extra_key, optimize_off, terms, output_subscript, operands,
                   dimension_dict, memory_limit, memory_arg, path_type, use_blas, path,
                   searched, input_list, input_sets, contraction_list, cost_list, error,
                   einsum_direct>>
    /\ UNCHANGED <<execVars, searchVars>>

\* optimal: the level on top of the stack tries its next pair; the pair is
\* dropped when it is pruned, else the search goes a level down with it
OptimalTry ==
    /\ pc = "search"
    /\ searched = "optimal"
    /\ stack # <<>>
    /\ Len(Head(stack).sets) > 1
    /\ Head(stack).todo # {}
    /\ \E level \in {Head(stack)} :
       \E p \in {NextPair(level, SetOf(output_subscript), dimension_dict)} :
       \E c \in {find_contraction(p, level.sets, SetOf(output_subscript))} :
       \E cost \in {level.cost + flop_count(c.idx_contract, c.idx_removed # {}, 2,
                                            dimension_dict)} :
       \E rest \in {<<[level EXCEPT !.todo = @ \ {p}]>> \o Tail(stack)} :
          stack' = IF Pruned(cost, c.new_result, dimension_dict, memory_arg, best)
                   THEN rest
                   ELSE <<Level(c.remaining, cost, Append(level.path, p))>> \o rest
    /\ UNCHANGED <<best, merges>>
    /\ UNCHANGED planVars
    /\ UNCHANGED execVars

\* optimal: the level on top of the stack has one operand, its sequence is
\* complete; it is kept when it is cheaper than the cheapest so far
OptimalComplete ==
    /\ pc = "search"
    /\ searched = "optimal"
    /\ stack # <<>>
    /\ Len(Head(stack).sets) <= 1
    /\ best' = IF ~best.found \/ Head(stack).cost < best.cost
               THEN [found |-> TRUE, cost |-> Head(stack).cost, path |-> Head(stack).path]
               ELSE best
    /\ merges' = merges + 1
    /\ stack' = Tail(stack)
    /\ UNCHANGED planVars
    /\ UNCHANGED execVars

\* optimal: the level on top of the stack has tried all its pairs
OptimalBack ==
    /\ pc = "search"
    /\ searched = "optimal"
    /\ stack # <<>>
    /\ Len(Head(stack).sets) > 1
    /\ Head(stack).todo = {}
    /\ stack' = Tail(stack)
    /\ UNCHANGED <<best, merges>>
    /\ UNCHANGED planVars
    /\ UNCHANGED execVars

\* optimal: nothing is left to try; the cheapest sequence is returned, or a
\* single step over all operands when none was within the memory bound
OptimalReturn ==
    /\ pc = "search"
    /\ searched = "optimal"
    /\ stack = <<>>
    /\ pc' = "found"
    /\ path' = IF best.found THEN best.path ELSE <<0..(Len(input_sets) - 1)>>
    /\ UNCHANGED <<frame, extra_key, optimize_off, terms, output_subscript, operands,
                   dimension_dict, memory_limit, memory_arg, path_type, use_blas,
                   searched, input_list, input_sets, contraction_list, cost_list, error,
                   einsum_direct>>
    /\ UNCHANGED <<execVars, searchVars>>

NextSearch ==
    \/ SearchCall
    \/ GreedyMerge
    \/ GreedyReturn
    \/ OptimalTry
    \/ OptimalComplete
    \/ OptimalBack
    \/ OptimalReturn

\* a strategy that has been called runs on: nothing but its own steps can stop it
SearchStep == GreedyMerge \/ GreedyReturn \/ OptimalTry \/ OptimalComplete \/ OptimalBack \/ OptimalReturn

SpecSearch == InitSearch /\ [][NextSearch]_vars /\ WF_vars(SearchStep)

\* ================================================================== claims
\* contract_path returned a path and its contraction list
PlanBuilt == pc = "done" /\ ~einsum_direct

RECURSIVE SeqProduct(_)
SeqProduct(s) == IF Len(s) = 0 THEN 1 ELSE s[1] * SeqProduct(Tail(s))

\* the operands a path leaves: each group takes its members and gives one back
RECURSIVE LeftBy(_, _)
LeftBy(p, n) == IF Len(p) = 0 THEN n ELSE LeftBy(Tail(p), n - (Cardinality(p[1]) - 1))

\* a path with at least one group that leaves one operand
CompletePath(p, n) == Len(p) >= 1 /\ LeftBy(p, n) = 1

\* C1 as claimed: every plan contract_path builds, whatever the path comes
\* from, ends with a remaining-operand list of exactly one entry, the output
\* term.
C1_EveryPlanEndsWithOutput ==
    PlanBuilt => input_list = <<output_subscript>>

\* C1 amended: a plan built from a named strategy, or from a caller's path that
\* has a group and whose groups leave one operand, ends with a remaining-operand
\* list of exactly one entry, the output term with its labels in their order.
C1_CompletePlanEndsWithOutput ==
    (PlanBuilt /\ (path_type.kind = "str" \/ CompletePath(path, Len(terms))))
        => /\ input_list = <<output_subscript>>
           /\ contraction_list[Len(contraction_list)].remaining = <<output_subscript>>

\* a two-step plan found by a search, whose output is not in size order
C1_Witness ==
    /\ PlanBuilt
    /\ searched = "greedy"
    /\ Len(contraction_list) = 2
    /\ Len(output_subscript) = 2
    /\ output_subscript # SortBySize(SetOf(output_subscript), dimension_dict)
    /\ input_list = <<output_subscript>>

\* C2: operands that do not fit the terms (a rank that differs from the term's
\* length, or a label seen with two sizes, also inside one term) end the call
\* with an error raised while the dimension table is built: no search has run
\* and no contraction has been built.
C2_MalformedFailsInDimensions ==
    (operands # <<>> /\ Malformed(terms, operands))
        => /\ pc = "error"
           /\ error = [kind |-> "ValueError", at |-> "dims"]
           /\ searched = None
           /\ path = <<>>
           /\ contraction_list = <<>>
           /\ ~einsum_direct

\* a label repeated inside one term, with two sizes, and every rank right
C2_Witness ==
    /\ pc = "error"
    /\ error.at = "dims"
    /\ \A i \in 1..Len(terms) : Len(operands[i]) = Len(terms[i])
    /\ \E i \in 1..Len(terms) :
           /\ Len(terms[i]) = 2
           /\ terms[i][1] = terms[i][2]
           /\ operands[i][1] # operands[i][2]

\* the call names a path strategy that does not exist, or passes a keyword the
\* called function does not take
UnknownConfiguration ==
    \/ path_type.kind = "str" /\ path_type.name \notin {"greedy", "opportunistic", "optimal"}
    \/ extra_key = "bogus"
    \/ frame = "contract_path" /\ extra_key # "None"

\* C3: a call with an unknown path-strategy name or an unsupported keyword
\* fails with an error and does no work: no plan is returned, nothing is
\* contracted.
C3_UnknownConfigurationFails ==
    UnknownConfiguration
        => /\ pc = "error"
           /\ contraction_list = <<>>
           /\ ~einsum_direct

\* the memory bound of the call has been resolved, or has failed
MemoryResolved ==
    \/ pc \in {"memory", "done"} /\ ~einsum_direct
    \/ pc = "error" /\ error.at \in {"memory", "path", "build", "print"}

\* the size of the output, and of input i, from the operands of the call
OutputSize == SeqProduct([k \in 1..Len(output_subscript) |-> dimension_dict[output_subscript[k]]])

InputSize(i) == SeqProduct(operands[i])

C5_IdentityPaths ==
    (PlanBuilt /\ path_type.kind = "str" /\ path_type.name \in {"greedy", "optimal"})
        => LET n == Len(terms)
               indices == UNION {SetOf(terms[i]) : i \in 1..Len(terms)}
           IN /\ n = 1 => (path = <<{0}>> /\ searched = None)
              /\ n = 2 => (path = <<{0, 1}>> /\ searched = None)
              /\ (n >= 3 /\ indices = SetOf(output_subscript))
                     => (path = <<0..(n - 1)>> /\ searched = None)

\* three operands whose labels are all output labels, under the optimal strategy
C5_Witness ==
    /\ PlanBuilt
    /\ path_type = StrPath("optimal")
    /\ Len(terms) = 3
    /\ path = <<{0, 1, 2}>>
    /\ searched = None
    /\ Len(contraction_list) = 1

\* the expression is as it was constructed: its plan, its count of operands
\* and its stored options
AsConstructed ==
    /\ expr.contraction_list = contraction_list
    /\ expr.num_args = Len(terms)
    /\ dicts[Stored] = NoDict

\* the tensors of call c are those the expression was built for
Fits(c) == lists[c] = [k \in 1..Len(operands) |-> Tensor(operands[k], Given)]

\* C6: a ContractExpression for N operands called with another number of
\* tensors raises the argument-count error with N and the received number,
\* before any primitive runs, and leaves the expression as constructed; a call
\* with N tensors after such a failure starts from the expression as
\* constructed, its own tensors and no option of the failed call.
C6_WrongCountRejected ==
    \A c \in Calls :
        /\ (expr.via = "expression" /\ cpc[c] # "idle" /\ Len(lists[c]) # Len(terms))
               => /\ cpc[c] = "raised"
                  /\ raised[c].kind = "ValueError"
                  /\ raised[c].at = "count"
                  /\ raised[c].expected = Len(terms)
                  /\ raised[c].received = Len(lists[c])
                  /\ log[c] = <<>>
                  /\ buffers[c].writes = <<>>
                  /\ operands_ref[c] = 0
                  /\ AsConstructed
        /\ (expr.via = "expression" /\ miscounted) => AsConstructed
        /\ (expr.via = "expression" /\ miscounted /\ cpc[c] = "core" /\ num[c] = 0)
               => /\ lists[operands_ref[c]] = lists[c]
                  /\ Len(lists[c]) = Len(terms)
                  /\ dicts[kwargs_ref[c]] = NoDict
                  /\ log[c] = <<>>
                  /\ buffers[c].writes = <<>>

\* a call with one tensor too many has failed the count after an earlier call
\* had failed it too
C6_Witness ==
    /\ expr.via = "expression"
    /\ miscounted
    /\ cpc[1] = "raised"
    /\ raised[1].at = "count"
    /\ raised[1].received = Len(terms) + 1
    /\ out_array[1] = NoOut
    /\ buffers[1].shape = OutShape
    /\ Len(OutShape) = 2

\* C7: a primitive that fails during a call of a ContractExpression reaches
\* the caller as the wrapped 'internal error' ValueError, whatever the
\* primitive raised.
C7_PrimitiveFailuresWrapped ==
    \A c \in Calls :
        (expr.via = "expression" /\ cpc[c] = "raised" /\ raised[c].at = "core")
            => (raised[c].wrapped /\ raised[c].kind = "ValueError")

\* no primitive of a pass before the last is handed the buffer, no such pass
\* writes it, and the working list holds no buffer before the last pass
EarlierPassesFresh(c) ==
    /\ \A k \in 1..Len(log[c]) :
           log[c][k].out # Fresh => log[c][k].num + 1 = Len(expr.contraction_list)
    /\ \A k \in 1..Len(buffers[c].writes) :
           buffers[c].writes[k].num + 1 = Len(expr.contraction_list)
    /\ (cpc[c] = "core" /\ num[c] < Len(expr.contraction_list))
           => \A k \in 1..Len(lists[operands_ref[c]]) :
                  lists[operands_ref[c]][k].buf \in {Fresh, Given}

\* the buffer that is returned is the caller's and the last pass wrote it
ReturnedFilled(c) ==
    /\ result[c].buf = c
    /\ Len(buffers[c].writes) = 1
    /\ buffers[c].writes[1] = [by |-> c, num |-> Len(expr.contraction_list) - 1]

\* C8 as claimed: for every plan, an execution with an output buffer hands the
\* buffer to the last contraction step only, and the buffer it returns has been
\* filled by that step.
C8_BufferFilledByLastStep ==
    \A c \in Calls :
        /\ EarlierPassesFresh(c)
        /\ (cpc[c] = "returned" /\ out_array[c].given) => ReturnedFilled(c)

\* C8 amended: for every plan of at least one step, an execution with an
\* output buffer hands the buffer to the last contraction step only, and the
\* buffer it returns has been filled by that step.
C8_BufferFilledByLastStepOfPlan ==
    \A c \in Calls :
        /\ EarlierPassesFresh(c)
        /\ (cpc[c] = "returned" /\ out_array[c].given /\ Len(expr.contraction_list) >= 1)
               => ReturnedFilled(c)

\* a plan of a tensordot step and an einsum step returned the filled buffer
C8_Witness ==
    /\ cpc[1] = "returned"
    /\ out_array[1].given
    /\ Len(expr.contraction_list) = 2
    /\ expr.contraction_list[1].blas # expr.contraction_list[2].blas
    /\ ReturnedFilled(1)

\* C9: executions leave the ContractExpression as constructed and the
\* caller's sequence as passed, under every interleaving of two calls, and each
\* call works on its own list, its own options and its own buffer.
C9_ExecutionMutatesNothing ==
    /\ AsConstructed
    /\ \A c \in Calls :
        /\ cpc[c] # "idle" => Fits(c)
        /\ \A k \in 1..Len(buffers[c].writes) : buffers[c].writes[k].by = c
        /\ \A k \in 1..Len(log[c]) : log[c][k].out \in {Fresh, c}
        /\ cpc[c] = "returned" => result[c].buf \in {Fresh, Given, c}
        /\ cpc[c] = "core" =>
               /\ operands_ref[c] \notin Calls
               /\ kwargs_ref[c] # Stored
               /\ \A k \in 1..Len(lists[operands_ref[c]]) :
                      lists[operands_ref[c]][k].buf \in {Fresh, Given, c}
               /\ \A d \in Calls \ {c} :
                      cpc[d] = "core" =>
                          /\ operands_ref[d] # operands_ref[c]
                          /\ kwargs_ref[d] # kwargs_ref[c]

\* the two calls are under way, one a pass ahead of the other, each with a buffer
C9_Witness ==
    /\ cpc[1] = "core"
    /\ cpc[2] = "core"
    /\ num[1] = 1
    /\ num[2] = 0
    /\ out_array[1].given
    /\ out_array[2].given
    /\ Len(expr.contraction_list) = 2

\* the plan the greedy strategy gives for the expression and memory bound of
\* the call
GreedyPlan ==
    BuildLoop(ComputePath(StrPath("greedy"), terms,
                          [i \in 1..Len(terms) |-> SetOf(terms[i])],
                          SetOf(output_subscript),
                          UNION {SetOf(terms[i]) : i \in 1..Len(terms)},
                          dimension_dict, memory_arg).path,
              terms, [i \in 1..Len(terms) |-> SetOf(terms[i])], output_subscript,
              dimension_dict, use_blas, <<>>, <<>>)

\* every new operand of a plan is within the memory bound
WithinBound(plan) ==
    \A k \in 1..Len(plan.contraction_list) :
        compute_size_by_dict(SetOf(plan.contraction_list[k].result), dimension_dict)
            <= memory_arg

RECURSIVE Visits(_)
Visits(k) == IF k <= 1 THEN 1 ELSE 1 + ((k * (k - 1)) \div 2) * (1 + Visits(k - 1))

\* the complete sequences of pair contractions of n operands
RECURSIVE PairSequences(_)
PairSequences(n) == IF n <= 1 THEN 1 ELSE ((n * (n - 1)) \div 2) * PairSequences(n - 1)

\* the steps the optimal search can take on a level of the stack
LevelWork(level) ==
    IF Len(level.sets) <= 1 THEN 1
    ELSE 1 + Cardinality(level.todo) * (1 + Visits(Len(level.sets) - 1))

\* the steps a search can still take: its return, and the merges of greedy or
\* the levels of optimal
Work ==
    (IF pc = "search" THEN 1 ELSE 0)
        + (IF searched = "greedy" THEN Len(input_sets) - 1
           ELSE SeqSum([k \in 1..Len(stack) |-> LevelWork(stack[k])]))

\* the operand sets the search started from
StartSets == [i \in 1..Len(terms) |-> SetOf(terms[i])]

\* the pairs of a list of operand sets that share a label, and those of them
\* whose new operand is within the memory bound
Sharing(sets) == {p \in Pairs(Len(sets)) : sets[MinOf(p) + 1] \cap sets[MaxOf(p) + 1] # {}}

Within(sets) ==
    {p \in Sharing(sets) :
        compute_size_by_dict(find_contraction(p, sets, SetOf(output_subscript)).new_result,
                             dimension_dict) <= memory_arg}

\* greedy has merged once for each operand it has taken off the list, and
\* returns with one operand left; optimal has completed no more sequences than
\* there are, and returns with nothing left to visit and the cheapest sequence
\* within the memory bound, if there is one
SearchBounded ==
    /\ searched = "greedy" =>
           /\ Len(input_sets) >= 1
           /\ Len(input_sets) = Len(terms) - merges
           /\ Len(path) = merges
           /\ pc = "found" =>
                  /\ Len(input_sets) = 1
                  /\ merges = Len(terms) - 1
                  /\ path = greedy(StartSets, SetOf(output_subscript), dimension_dict,
                                   memory_arg)
    /\ searched = "optimal" =>
           /\ merges <= PairSequences(Len(terms))
           /\ pc = "found" =>
                  LET found == OptimalSearch(StartSets, SetOf(output_subscript),
                                             dimension_dict, memory_arg)
                  IN /\ stack = <<>>
                     /\ best.found <=> found # {}
                     /\ best.found =>
                            /\ \E r \in found : r.path = path /\ r.cost = best.cost
                            /\ \A r \in found : best.cost <= r.cost
                            /\ LeftBy(path, Len(terms)) = 1

\* C11: both strategies terminate on every input. Each step of a search that
\* has been called strictly reduces the steps it can still take; each merge of greedy takes one
\* operand off the list, also when no pair is within the memory bound and when
\* no pair shares a label, and greedy returns with exactly one operand left
\* after one merge less than it had operands; optimal completes no more
\* sequences than there are; and every search that is called returns.
C11_StrategiesTerminate ==
    /\ []SearchBounded
    /\ [][pc = "search" => (Work' < Work /\ Work' >= 0)]_vars
    /\ (pc = "search") ~> (pc = "found")

\* greedy has returned from three operands: at its first merge no pair that
\* shares a label was within the memory bound, at its second no pair shared one
C11_Witness ==
    /\ pc = "found"
    /\ searched = "greedy"
    /\ Len(terms) = 3
    /\ merges = 2
    /\ Len(input_sets) = 1
    /\ Sharing(StartSets) # {}
    /\ Within(StartSets) = {}
    /\ Sharing(find_contraction(path[1], StartSets, SetOf(output_subscript)).remaining) = {}

\* the labels of a list of terms
LabelsOf(list) == UNION {SetOf(list[i]) : i \in 1..Len(list)}

\* the operands step k of the plan left alone: its remaining list without the
\* new operand, which is the last
OthersAt(k) ==
    SubSeq(contraction_list[k].remaining, 1, Len(contraction_list[k].remaining) - 1)

\* step k eliminates exactly the labels of its grouped operands that are
\* neither output labels nor labels of another remaining operand
EliminatedExactly(k) ==
    contraction_list[k].idx_rm
        = LabelsOf(contraction_list[k].inputs)
              \ (SetOf(output_subscript) \cup LabelsOf(OthersAt(k)))

\* the new operand of step k has the labels of the grouped operands less the
\* eliminated ones
ResultIsUnionLessEliminated(k) ==
    SetOf(contraction_list[k].result)
        = LabelsOf(contraction_list[k].inputs) \ contraction_list[k].idx_rm

\* no output label is eliminated at step k, and no label eliminated at step k is
\* in a remaining list from step k on
EliminatedForGood(k) ==
    /\ contraction_list[k].idx_rm \cap SetOf(output_subscript) = {}
    /\ \A j \in k..Len(contraction_list) :
           contraction_list[k].idx_rm \cap LabelsOf(contraction_list[j].remaining) = {}

\* C14 as claimed: at every step of every plan the eliminated labels are
\* exactly the labels of the grouped operands that are in neither the output
\* nor another remaining operand, the new operand has the labels of the grouped
\* operands less the eliminated ones, no output label is ever eliminated and an
\* eliminated label is in no later remaining list.
C14_EliminatedAtEveryStep ==
    \A k \in 1..Len(contraction_list) :
        /\ EliminatedExactly(k)
        /\ ResultIsUnionLessEliminated(k)
        /\ EliminatedForGood(k)

\* C14 amended: at every step of every plan the eliminated labels are exactly
\* the labels of the grouped operands that are in neither the output nor
\* another remaining operand, no output label is ever eliminated and an
\* eliminated label is in no later remaining list; the new operand has the
\* labels of the grouped operands less the eliminated ones at every step but
\* the last, and at the last step when the path leaves one operand.
C14_EliminatedAtEveryStepOfCompletePath ==
    \A k \in 1..Len(contraction_list) :
        /\ EliminatedExactly(k)
        /\ EliminatedForGood(k)
        /\ (k < Len(contraction_list) \/ path_type.kind = "str"
                \/ CompletePath(path, Len(terms)))
               => ResultIsUnionLessEliminated(k)

\* a plan of two steps found by a search, each of which eliminates a label
C14_Witness ==
    /\ PlanBuilt
    /\ searched = "greedy"
    /\ Len(contraction_list) = 2
    /\ contraction_list[1].idx_rm # {}
    /\ contraction_list[2].idx_rm # {}
    /\ contraction_list[1].idx_rm # contraction_list[2].idx_rm

\* ------------------------------------------------------------------ C13
\* the step the loop of call c is about to execute
StepAt(c) == expr.contraction_list[num[c] + 1]

\* call c stands before a step tagged for tensordot, with the two tensors of
\* the step in its working list
BeforeTensordot(c) ==
    /\ cpc[c] = "core"
    /\ num[c] < Len(expr.contraction_list)
    /\ StepAt(c).blas
    /\ Len(StepAt(c).inputs) = 2
    /\ \A k \in 1..Len(StepAt(c).inds) :
           StepAt(c).inds[k] <= Len(lists[operands_ref[c]]) - k

\* the tensors the step pops
TmpOperands(c) == PopAll(lists[operands_ref[c]], StepAt(c).inds).popped

\* left_pos and right_pos name an axis of their operand for every eliminated
\* label, and the two axes of a pair carry the same label
PositionsPaired(input_left, input_right, left_pos, right_pos) ==
    /\ Len(left_pos) = Len(right_pos)
    /\ \A k \in 1..Len(left_pos) :
           /\ left_pos[k] >= 0 /\ left_pos[k] < Len(input_left)
           /\ right_pos[k] >= 0 /\ right_pos[k] < Len(input_right)
           /\ input_left[left_pos[k] + 1] = input_right[right_pos[k] + 1]

\* np.tensordot accepts the two tensors and gives one axis per label of the
\* raw-result label string
OneLabelPerAxis(contraction, tmp_operands, left_pos, right_pos) ==
    \E td \in {Tensordot(tmp_operands[1].shape, tmp_operands[2].shape, left_pos, right_pos)} :
        /\ td.err = None
        /\ Len(td.shape) = Len(Without(contraction.inputs[1] \o contraction.inputs[2],
                                       contraction.idx_rm))

\* C13: before every step tagged for the fast pairwise primitive, executed on
\* tensors that fit the expression, the two axis-position lists derived from
\* the eliminated labels have equal length, name valid axes (no 'not found'
\* position), pair axes of the same label, and the raw-result label string
\* has one label per axis of the primitive's result.
C13_TensordotAxesWellFormed ==
    \A c \in Calls :
        (BeforeTensordot(c) /\ Fits(c)) =>
            \A order \in Orders(StepAt(c).idx_rm) :
                \E left_pos \in {[k \in 1..Len(order) |-> Find(StepAt(c).inputs[1], order[k])]},
                   right_pos \in {[k \in 1..Len(order) |-> Find(StepAt(c).inputs[2], order[k])]} :
                    /\ PositionsPaired(StepAt(c).inputs[1], StepAt(c).inputs[2],
                                       left_pos, right_pos)
                    /\ OneLabelPerAxis(StepAt(c), TmpOperands(c), left_pos, right_pos)

\* ------------------------------------------------------------------ C12
\* the builder's label list after n steps of the plan
LabelListAt(n) == IF n = 0 THEN terms ELSE expr.contraction_list[n].remaining

\* one tensor per term, each with one axis per label of its term
Aligned(ops, labels) ==
    /\ Len(ops) = Len(labels)
    /\ \A i \in 1..Len(ops) : Len(ops[i].shape) = Len(labels[i])

\* popping the step's positions, highest first, takes from the label list the
\* terms of the step's sub-expression, in its order, and from the working
\* list a tensor for each of them
PopsAgree(ops, labels, contraction) ==
    /\ \A k \in 1..Len(contraction.inds) : contraction.inds[k] <= Len(ops) - k
    /\ \A k \in 1..(Len(contraction.inds) - 1) :
           contraction.inds[k] > contraction.inds[k + 1]
    /\ PopAll(labels, contraction.inds).popped = contraction.inputs
    /\ Aligned(PopAll(ops, contraction.inds).popped, contraction.inputs)
    /\ Len(PopAll(ops, contraction.inds).rest) + 1 = Len(contraction.remaining)

\* C12: in an execution on tensors that fit the expression, after every step
\* the working tensor list has one tensor per term of the step's recorded
\* remaining-operand label list, each with one axis per label, and the next
\* step pops, highest position first, the tensors of the terms the builder
\* popped for it, leaving room for one result.
C12_WorkingListAligned ==
    \A c \in Calls :
        (cpc[c] \in {"core", "returned"} /\ Fits(c)) =>
            /\ Aligned(lists[operands_ref[c]], LabelListAt(num[c]))
            /\ (cpc[c] = "core" /\ num[c] < Len(expr.contraction_list))
                   => PopsAgree(lists[operands_ref[c]], LabelListAt(num[c]), StepAt(c))

\* the working list leaves the label list only in an execution that has
\* called tensordot: every pass made of einsum alone keeps them aligned
MisalignedOnlyAfterTensordot ==
    \A c \in Calls :
        (cpc[c] \in {"core", "returned"} /\ Fits(c)) =>
            \/ \E k \in 1..Len(log[c]) : log[c][k].prim = "tensordot"
            \/ /\ Aligned(lists[operands_ref[c]], LabelListAt(num[c]))
               /\ (cpc[c] = "core" /\ num[c] < Len(expr.contraction_list))
                      => PopsAgree(lists[operands_ref[c]], LabelListAt(num[c]), StepAt(c))

====
